---- MODULE Spec2Model ----
(***************************************************************************)
(* The design registry of qiskit_metal (designs/design_base.py) and the    *)
(* polling table model of its GUI (_gui/widgets/components_model.py).      *)
(*                                                                         *)
(* components : the ordered Dict DesignBase._components, as the sequence   *)
(*              of its values in insertion order; the key of an entry is   *)
(*              its name field.                                            *)
(* connectors : the Dict DesignBase._connectors, as a function from the    *)
(*              connector names present to the Dict make_connector built.  *)
(* variables  : the Dict DesignBase._variables.                            *)
(* ret        : what the last call returned or raised, as Python prints it;*)
(*              "pending" while the call runs.                             *)
(* last       : which call was the last one (op), and whether the case the *)
(*              call is examined for held when it was made (pre).          *)
(*                                                                         *)
(* Spec runs every handler as one step, as the single-threaded program     *)
(* does.  ConcSpec runs delete_component and make_all_components statement *)
(* by statement, with the GUI's poll between any two statements:           *)
(* pc         : "idle", or where the mutator stands inside a handler.      *)
(* cur, todo  : inside _delete_component, the component being deleted and  *)
(*              the connector names the loop has yet to visit.             *)
(* popped     : inside _delete_component, a connector has been popped.     *)
(* idx        : inside make_all_components, the entry the loop stands at.  *)
(* seen       : what the last poll of the observer found: "whole", or      *)
(*              "partial" when it read the mappings between a popped       *)
(*              connector and the pop of its component.                    *)
(*                                                                         *)
(* TableSpec runs the table model over the component mapping:              *)
(* row_count  : ComponentsTableModel._row_count, the cached number of rows.*)
(* emitted    : the last refresh_auto emitted modelReset.                  *)
(* polled     : the names of the component mapping, in order, as the last  *)
(*              refresh_auto found them.                                   *)
(*                                                                         *)
(* GeomSpec applies add_connector to one call drawn from a grid of points: *)
(* input      : the arguments of that call.                                *)
(***************************************************************************)
EXTENDS Integers, Sequences, FiniteSets, TLC

VARIABLES components, connectors, variables, ret, last, pc, cur, todo, popped, idx, seen,
          row_count, emitted, polled, input

vars == <<components, connectors, variables, ret, last, pc, cur, todo, popped, idx, seen,
          row_count, emitted, polled, input>>

\* the state of the table model ComponentsTableModel
table == <<row_count, emitted, polled>>

\* the position of the mutator inside a handler
position == <<pc, cur, todo, popped, idx>>

(* ------------------------------ bounds -------------------------------- *)

\* most entries the component mapping is let to hold
MaxComponents == 2

\* most entries the connector mapping is let to hold
MaxConnectors == 2

\* the names components are constructed with
CompNames == {"a", "b"}

\* the names connectors are added under
ConnNames == {"c1", "c2"}

\* identifier-like strings: the component names and one name never constructed
Identifiers == CompNames \cup {"z"}

\* the old and the new names rename_component is called with; "1x" and "" are
\* no identifiers
OldNames == {"a", "1x"}

NewNames == {"b", "z", ""}

\* a parent argument of add_connector: a component object, None, or a string
ParentArgs ==
    { [kind |-> "component", name |-> "a"],
      [kind |-> "None", name |-> ""],
      [kind |-> "str", name |-> "b"] }

\* the (points, flip, chip) arguments add_connector is called with: two points,
\* and a list of one point
ConnectorArgs ==
    { [points |-> << <<0, 0>>, <<2, 0>> >>, flip |-> FALSE, chip |-> "main"],
      [points |-> << <<0, 0>> >>, flip |-> FALSE, chip |-> "main"] }

\* the sets of components whose make() fails during one make_all_components
FailSets == SUBSET CompNames

\* the design variables the user has set: design.variables.x = '3'
UserVariables == [name \in {"x"} |-> "3"]

\* the strings handed to parse_value
ParseArgs == {"x", "2*"}

\* strings that are numbers, and strings that are malformed arithmetic
Numerals == {"3"}

Malformed == {"2*"}

(* ------------------------- the Dict operations ------------------------ *)

\* the empty Dict
EmptyDict == << >>

\* the keys of the component mapping
Keys(comps) == {comps[i].name : i \in 1..Len(comps)}

\* components[name]
Get(comps, name) == comps[CHOOSE i \in 1..Len(comps) : comps[i].name = name]

\* components.pop(name, None), the last entry moved into the freed place
PopKey_swap_remove(comps, name) ==
    IF \A i \in 1..Len(comps) : comps[i].name # name THEN comps
    ELSE LET i == CHOOSE j \in 1..Len(comps) : comps[j].name = name
         IN  SubSeq([comps EXCEPT ![i] = comps[Len(comps)]], 1, Len(comps) - 1)

\* components.pop(name, None)
PopKey(comps, name) == SelectSeq(comps, LAMBDA e : e.name # name)

\* connectors.pop(name), name a key
Pop(conns, name) == [k \in (DOMAIN conns) \ {name} |-> conns[k]]

\* connectors[name] = value
Put(conns, name, value) ==
    [k \in (DOMAIN conns) \cup {name} |-> IF k = name THEN value ELSE conns[k]]

\* a handler's outcome: the two mappings it leaves and what it returned or raised
Outcome(comps, conns, r) == [components |-> comps, connectors |-> conns, ret |-> r]

(* --------------------------- collaborators ---------------------------- *)

\* components.base.is_component: the object is a component (not a string, not None)
is_component(obj) == obj.kind = "component"

\* the validity test rename_component calls, which design_base.py neither defines
\* nor imports: a non-empty identifier
is_valid_component_name(name) == name \in Identifiers

\* toolbox_metal.parsing.parse_value on a string: a variable is replaced by its
\* parsed value, a number is kept, malformed arithmetic is an error, and any
\* other string is kept
RECURSIVE parse_value(_, _)
parse_value(value, variable_dict) ==
    IF value \in DOMAIN variable_dict
    THEN parse_value(variable_dict[value], variable_dict)
    ELSE IF value \in Numerals THEN value
    ELSE IF value \in Malformed THEN "ParseError"
    ELSE value

\* a freshly constructed component
NewComponent(name) ==
    [kind |-> "component", name |-> name, status |-> "unbuilt", connector_names |-> {}]

\* the first half of a component's make(): the build starts
make_begin(obj) == [obj EXCEPT !.status = "building"]

\* the second half of a component's make(): it ends good, or failed and raising
make_end(obj, fails) ==
    [obj |-> [obj EXCEPT !.status = IF fails THEN "failed" ELSE "good"], raised |-> fails]

\* a component's make()
make(obj, fails) == make_end(make_begin(obj), fails)

Abs(x) == IF x < 0 THEN -x ELSE x

Sgn(x) == IF x < 0 THEN -1 ELSE IF x > 0 THEN 1 ELSE 0

\* draw.vec_unit_norm on two axis-aligned integer points: the distance vector, its
\* unit vector and the unit vector turned by 90 degrees; nan when the points coincide
vec_unit_norm(points) ==
    LET dx == points[2][1] - points[1][1]
        dy == points[2][2] - points[1][2]
    IN  [vec_dist |-> <<dx, dy>>,
         vec_dist_unit |-> <<Sgn(dx), Sgn(dy)>>,
         vec_normal |-> <<-Sgn(dy), Sgn(dx)>>,
         nan |-> (dx = 0 /\ dy = 0)]

\* np.linalg.norm of an axis-aligned integer vector
norm(vec) == Abs(vec[1]) + Abs(vec[2])

\* x / 2. as a fraction <<numerator, denominator>> in lowest terms
Half(x) == IF x % 2 = 0 THEN <<x \div 2, 1>> ELSE <<x, 2>>

(* --------------------------- make_connector --------------------------- *)

\* the values of the keyword arguments of make_connector and add_connector
\* when the caller leaves them out
KeywordDefaults == [flip |-> FALSE, chip |-> "main"]

\* make_connector with the normal left as vec_unit_norm gave it
make_connector_ignoring_flip(points, parent_name, flip, chip) ==
    IF Len(points) # 2
    THEN [raised |-> TRUE]
    ELSE LET v == vec_unit_norm(points)
         IN  [raised |-> FALSE,
              value |-> [points |-> points,
                         middle |-> <<Half(points[1][1] + points[2][1]),
                                      Half(points[1][2] + points[2][2])>>,
                         normal |-> v.vec_normal,
                         tangent |-> v.vec_dist_unit,
                         nan |-> v.nan,
                         width |-> norm(v.vec_dist),
                         chip |-> chip,
                         parent_name |-> parent_name]]

make_connector(points, parent_name, flip, chip) ==
    IF Len(points) # 2
    THEN [raised |-> TRUE]
    ELSE LET v == vec_unit_norm(points)
             vec_normal == IF flip THEN <<-v.vec_normal[1], -v.vec_normal[2]>>
                                   ELSE v.vec_normal
         IN  [raised |-> FALSE,
              value |-> [points |-> points,
                         middle |-> <<Half(points[1][1] + points[2][1]),
                                      Half(points[1][2] + points[2][2])>>,
                         normal |-> vec_normal,
                         tangent |-> v.vec_dist_unit,
                         nan |-> v.nan,
                         width |-> norm(v.vec_dist),
                         chip |-> chip,
                         parent_name |-> parent_name]]

(* ----------------------------- DesignBase ----------------------------- *)

\* delete_all_connectors clearing the components along with the connectors
delete_all_connectors_clearing_components(comps, conns) ==
    Outcome(EmptyDict, EmptyDict, "connectors")

delete_all_connectors(comps, conns) == Outcome(comps, EmptyDict, "connectors")

\* delete_all_components without its call of delete_all_connectors
delete_all_components_keeping_connectors(comps, conns) ==
    Outcome(EmptyDict, conns, "components")

delete_all_components(comps, conns) ==
    Outcome(EmptyDict, delete_all_connectors(EmptyDict, conns).connectors, "components")

\* the loop of make_all_components from entry i on: a make() that raises ends it
RECURSIVE make_from(_, _, _)
make_from(comps, i, fails) ==
    IF i > Len(comps)
    THEN [components |-> comps, ret |-> "None"]
    ELSE IF is_component(comps[i])
         THEN LET m == make(comps[i], comps[i].name \in fails)
                  made == [comps EXCEPT ![i] = m.obj]
              IN  IF m.raised
                  THEN [components |-> made, ret |-> "Exception"]
                  ELSE make_from(made, i + 1, fails)
         ELSE make_from(comps, i + 1, fails)

make_all_components(comps, conns, fails) ==
    LET r == make_from(comps, 1, fails)
    IN  Outcome(r.components, conns, r.ret)

\* rename_component tests the validity of the old name, answers -2 when it is
\* valid, and has no statement that renames: the TODO after "do rename" stands
\* behind the return of -2
rename_component(comps, conns, component_name, new_component_name) ==
    IF new_component_name \in Keys(comps)
    THEN Outcome(comps, conns, "-1")
    ELSE IF is_valid_component_name(component_name)
         THEN Outcome(comps, conns, "-2")
         ELSE Outcome(comps, conns, "True")

\* the loop of _delete_component over the set connector_names, in any order:
\* the outcomes, each the connectors left and whether a pop raised KeyError
RECURSIVE pop_connectors(_, _)
pop_connectors(conns, connector_names) ==
    IF connector_names = {}
    THEN {[connectors |-> conns, raised |-> FALSE]}
    ELSE UNION { IF c_name \in DOMAIN conns
                 THEN pop_connectors(Pop(conns, c_name), connector_names \ {c_name})
                 ELSE {[connectors |-> conns, raised |-> TRUE]}
                 : c_name \in connector_names }

_delete_component(comps, conns, component_name) ==
    { IF r.raised
      THEN Outcome(comps, r.connectors, "KeyError")
      ELSE Outcome(PopKey(comps, component_name), r.connectors, "True")
      : r \in pop_connectors(conns, Get(comps, component_name).connector_names) }

\* delete_component answering False, not True, for a name that is no component
delete_component_absent_false(comps, conns, component_name, force) ==
    IF component_name \notin Keys(comps)
    THEN {Outcome(comps, conns, "False")}
    ELSE _delete_component(comps, conns, component_name)

\* force is not read: a present component is deleted whatever it is
delete_component(comps, conns, component_name, force) ==
    IF component_name \notin Keys(comps)
    THEN {Outcome(comps, conns, "True")}
    ELSE _delete_component(comps, conns, component_name)

\* add_connector storing the name "None" for a parent that is None
add_connector_none_unnamed(comps, conns, name, points, parent, flip, chip) ==
    LET parent_name == IF is_component(parent) THEN parent.name
                       ELSE IF parent.kind = "None" THEN "None"
                       ELSE parent.name
        made == make_connector(points, parent_name, flip, chip)
    IN  IF made.raised
        THEN Outcome(comps, conns, "AssertionError")
        ELSE Outcome(comps, Put(conns, name, made.value), "None")

add_connector(comps, conns, name, points, parent, flip, chip) ==
    LET parent_name == IF is_component(parent) THEN parent.name
                       ELSE IF parent.kind = "None" THEN "none"
                       ELSE parent.name
        made == make_connector(points, parent_name, flip, chip)
    IN  IF made.raised
        THEN Outcome(comps, conns, "AssertionError")
        ELSE Outcome(comps, Put(conns, name, made.value), "None")

(* ------------------------------ actions ------------------------------- *)

Call(op, pre) == [op |-> op, pre |-> pre]

Apply(out) ==
    /\ components' = out.components
    /\ connectors' = out.connectors
    /\ ret' = out.ret

\* some connector names the component as its parent
HasDependents(conns, name) == \E c \in DOMAIN conns : conns[c].parent_name = name

\* a handler runs from call to return with the mutator idle before and after
Idle == pc = "idle" /\ UNCHANGED <<position, seen, table, input>>

\* the state DesignBase.__init__ and ComponentsTableModel.__init__ leave
Constructed ==
    /\ components = EmptyDict
    /\ connectors = EmptyDict
    /\ variables = UserVariables
    /\ ret = "None"
    /\ last = Call("init", FALSE)
    /\ pc = "idle"
    /\ cur = ""
    /\ todo = {}
    /\ popped = FALSE
    /\ idx = 0
    /\ seen = "whole"
    /\ row_count = -1
    /\ emitted = FALSE
    /\ polled = << >>

\* a call of add_connector with no points, left unused outside GeomSpec
NoCall ==
    [points |-> << >>, flip |-> FALSE, chip |-> "main",
     parent |-> [kind |-> "None", name |-> ""]]

Init == Constructed /\ input = NoCall

\* a component is constructed with the design: it enters the component mapping
AddComponent(name) ==
    /\ Idle
    /\ name \notin Keys(components)
    /\ Len(components) < MaxComponents
    /\ components' = Append(components, NewComponent(name))
    /\ ret' = "None"
    /\ last' = Call("add_component", FALSE)
    /\ UNCHANGED <<connectors, variables>>

\* a component adds a connector of its own: it notes the name and calls the design
ComponentAddConnector(owner, name, args) ==
    /\ Idle
    /\ owner \in Keys(components)
    /\ Cardinality(DOMAIN connectors \cup {name}) <= MaxConnectors
    /\ LET out == add_connector(components, connectors, name, args.points,
                                Get(components, owner), args.flip, args.chip)
           i == CHOOSE j \in 1..Len(components) : components[j].name = owner
       IN  /\ out.ret = "None"
           /\ components' = [components EXCEPT ![i].connector_names = @ \cup {name}]
           /\ connectors' = out.connectors
           /\ ret' = out.ret
    /\ last' = Call("component_add_connector", FALSE)
    /\ UNCHANGED variables

AddConnector(name, args, parent) ==
    /\ Idle
    /\ Cardinality(DOMAIN connectors \cup {name}) <= MaxConnectors
    /\ Apply(add_connector(components, connectors, name, args.points, parent,
                           args.flip, args.chip))
    /\ last' = Call("add_connector", name \in DOMAIN connectors)
    /\ UNCHANGED variables

DeleteComponent(name, force) ==
    /\ Idle
    /\ \E out \in delete_component(components, connectors, name, force) : Apply(out)
    /\ last' = Call("delete_component", name \in Keys(components))
    /\ UNCHANGED variables

DeleteAllConnectors ==
    /\ Idle
    /\ Apply(delete_all_connectors(components, connectors))
    /\ last' = Call("delete_all_connectors", FALSE)
    /\ UNCHANGED variables

DeleteAllComponents ==
    /\ Idle
    /\ Apply(delete_all_components(components, connectors))
    /\ last' = Call("delete_all_components",
                    /\ \E c \in DOMAIN connectors : connectors[c].parent_name = "none"
                    /\ \E c \in DOMAIN connectors :
                          connectors[c].parent_name \in Keys(components))
    /\ UNCHANGED variables

MakeAllComponents(fails) ==
    /\ Idle
    /\ Apply(make_all_components(components, connectors, fails))
    /\ last' = Call("make_all_components", FALSE)
    /\ UNCHANGED variables

RenameComponent(old, new) ==
    /\ Idle
    /\ Apply(rename_component(components, connectors, old, new))
    /\ last' = Call("rename_component", FALSE)
    /\ UNCHANGED variables

\* DesignBase.parse_value
ParseValue(value) ==
    /\ Idle
    /\ ret' = parse_value(value, variables)
    /\ last' = Call("parse_value", FALSE)
    /\ UNCHANGED <<components, connectors, variables>>

Next ==
    \/ \E name \in CompNames : AddComponent(name)
    \/ \E owner \in CompNames, name \in ConnNames, args \in ConnectorArgs :
          ComponentAddConnector(owner, name, args)
    \/ \E name \in ConnNames, args \in ConnectorArgs, parent \in ParentArgs :
          AddConnector(name, args, parent)
    \/ \E name \in CompNames, force \in BOOLEAN : DeleteComponent(name, force)
    \/ DeleteAllConnectors
    \/ DeleteAllComponents
    \/ \E fails \in FailSets : MakeAllComponents(fails)
    \/ \E old \in OldNames, new \in NewNames : RenameComponent(old, new)
    \/ \E value \in ParseArgs : ParseValue(value)

Spec == Init /\ [][Next]_vars

(* ------------- the handlers statement by statement, polled ------------ *)

\* the handler returns or raises: the mutator is idle again
Return == pc' = "idle" /\ cur' = "" /\ todo' = {} /\ popped' = FALSE /\ idx' = 0

\* delete_component is called: it returns at once for an absent name, and
\* otherwise enters _delete_component and reads connector_names
BeginDelete(name, force) ==
    /\ pc = "idle"
    /\ last' = Call("delete_component", name \in Keys(components))
    /\ IF name \notin Keys(components)
       THEN /\ ret' = "True"
            /\ UNCHANGED position
       ELSE /\ pc' = "deleting"
            /\ cur' = name
            /\ todo' = Get(components, name).connector_names
            /\ popped' = FALSE
            /\ ret' = "pending"
            /\ UNCHANGED idx
    /\ UNCHANGED <<components, connectors, variables, seen, table, input>>

\* one turn of the loop of _delete_component: self.connectors.pop(c_name)
PopConnector(c_name) ==
    /\ pc = "deleting"
    /\ c_name \in todo
    /\ IF c_name \in DOMAIN connectors
       THEN /\ connectors' = Pop(connectors, c_name)
            /\ todo' = todo \ {c_name}
            /\ popped' = TRUE
            /\ UNCHANGED <<ret, pc, idx>>
            /\ UNCHANGED cur
       ELSE /\ ret' = "KeyError"
            /\ Return
            /\ UNCHANGED connectors
    /\ UNCHANGED <<components, variables, last, seen, table, input>>

\* after the loop: self.components.pop(component_name, None); return True
EndDelete ==
    /\ pc = "deleting"
    /\ todo = {}
    /\ components' = PopKey(components, cur)
    /\ ret' = "True"
    /\ Return
    /\ UNCHANGED <<connectors, variables, last, seen, table, input>>

\* make_all_components is called: the loop starts at the first entry
BeginMakeAll ==
    /\ pc = "idle"
    /\ pc' = "making"
    /\ idx' = 1
    /\ last' = Call("make_all_components", FALSE)
    /\ ret' = "pending"
    /\ UNCHANGED <<components, connectors, variables, cur, todo, popped, seen, table, input>>

\* the loop calls obj.make() on the entry it stands at
EnterMake ==
    /\ pc = "making"
    /\ idx <= Len(components)
    /\ IF is_component(components[idx])
       THEN /\ components' = [components EXCEPT ![idx] = make_begin(@)]
            /\ pc' = "in_make"
            /\ UNCHANGED idx
       ELSE /\ idx' = idx + 1
            /\ UNCHANGED <<components, pc>>
    /\ UNCHANGED <<connectors, variables, ret, last, cur, todo, popped, seen, table, input>>

\* obj.make() returns, or raises: nothing in make_all_components catches it
LeaveMake(fails) ==
    /\ pc = "in_make"
    /\ LET m == make_end(components[idx], fails)
       IN  /\ components' = [components EXCEPT ![idx] = m.obj]
           /\ IF m.raised
              THEN /\ ret' = "Exception"
                   /\ Return
              ELSE /\ pc' = "making"
                   /\ idx' = idx + 1
                   /\ UNCHANGED <<ret, cur, todo, popped>>
    /\ UNCHANGED <<connectors, variables, last, seen, table, input>>

\* the loop is past the last entry: make_all_components returns None
EndMakeAll ==
    /\ pc = "making"
    /\ idx > Len(components)
    /\ ret' = "None"
    /\ Return
    /\ UNCHANGED <<components, connectors, variables, last, seen, table, input>>

\* the mappings stand between a popped connector and the pop of its component
Partial == pc = "deleting" /\ popped /\ cur \in Keys(components)

\* the timer of the table model fires: refresh_auto reads the design
Observe ==
    /\ seen' = IF Partial THEN "partial" ELSE "whole"
    /\ UNCHANGED <<components, connectors, variables, ret, last, position, table, input>>

ConcNext ==
    \/ \E name \in CompNames : AddComponent(name)
    \/ \E owner \in CompNames, name \in ConnNames, args \in ConnectorArgs :
          ComponentAddConnector(owner, name, args)
    \/ \E name \in ConnNames, args \in ConnectorArgs, parent \in ParentArgs :
          AddConnector(name, args, parent)
    \/ DeleteAllConnectors
    \/ DeleteAllComponents
    \/ \E old \in OldNames, new \in NewNames : RenameComponent(old, new)
    \/ \E value \in ParseArgs : ParseValue(value)
    \/ \E name \in CompNames, force \in BOOLEAN : BeginDelete(name, force)
    \/ \E c_name \in ConnNames : PopConnector(c_name)
    \/ EndDelete
    \/ BeginMakeAll
    \/ EnterMake
    \/ \E fails \in BOOLEAN : LeaveMake(fails)
    \/ EndMakeAll
    \/ Observe

ConcSpec == Init /\ [][ConcNext]_vars

(* ------------------------------ claims ------------------------------- *)

\* C1: delete_component on a name that is no key of the component mapping returns
\* True and leaves the component, connector and variable mappings as they were,
\* whatever force is; a second call on the result does the same.
C1_DeleteAbsentIsNoOp ==
    [][\A name \in CompNames, force \in BOOLEAN :
          (DeleteComponent(name, force) /\ name \notin Keys(components))
              => /\ ret' = "True"
                 /\ UNCHANGED <<components, connectors, variables>>
                 /\ delete_component(components', connectors', name, force)
                        = {Outcome(components', connectors', "True")}]_vars

\* C1 happens: an absent name was deleted from a registry holding a component
\* and a connector
C1_Witness ==
    /\ last = Call("delete_component", FALSE)
    /\ ret = "True"
    /\ components # EmptyDict
    /\ connectors # EmptyDict

\* C2: after delete_component(x, force=True) on a present x, x is absent and no
\* connector names x as its parent, listed in x's connector_names or not.
C2_DeleteCascadesByParent ==
    [][\A name \in CompNames :
          (DeleteComponent(name, TRUE) /\ name \in Keys(components))
              => /\ name \notin Keys(components')
                 /\ ~HasDependents(connectors', name)]_vars

\* C3: delete_component(x, force=False) on a present x that a connector names as
\* its parent returns False and changes neither mapping.
C3_DeleteRefusedWithDependents ==
    [][\A name \in CompNames :
          (/\ DeleteComponent(name, FALSE)
           /\ name \in Keys(components)
           /\ HasDependents(connectors, name))
              => /\ ret' = "False"
                 /\ UNCHANGED <<components, connectors>>]_vars

\* C4: after delete_all_components both the component mapping and the connector
\* mapping are empty, and the variable mapping is as it was.
C4_DeleteAllEmptiesBoth ==
    [][DeleteAllComponents
          => /\ components' = EmptyDict
             /\ connectors' = EmptyDict
             /\ variables' = variables]_vars

\* C4 happens: delete_all_components ran on a registry that held a connector of
\* parent "none" and a connector of a component still present
C4_Witness ==
    /\ last = Call("delete_all_components", TRUE)
    /\ components = EmptyDict
    /\ connectors = EmptyDict

\* C5: make_all_components with exactly one component whose make() fails does not
\* raise, and leaves that component failed and every other one good.
C5_MakeAllIsolatesFailure ==
    [][\A fails \in FailSets :
          (MakeAllComponents(fails) /\ Cardinality(fails \cap Keys(components)) = 1)
              => /\ ret' = "None"
                 /\ \A i \in 1..Len(components') :
                        components'[i].status =
                            IF components'[i].name \in fails THEN "failed" ELSE "good"]_vars

\* C6: add_connector under a name that is already a key of the connector mapping
\* fails with DuplicateName and leaves the registry as it was.
C6_AddConnectorRejectsDuplicate ==
    [][\A name \in ConnNames, args \in ConnectorArgs, parent \in ParentArgs :
          (AddConnector(name, args, parent) /\ name \in DOMAIN connectors)
              => /\ ret' = "DuplicateName"
                 /\ UNCHANGED <<components, connectors, variables>>]_vars

\* what C7 says rename_component returns: -1 (Conflict) when the new name is a
\* component name, -2 (InvalidName) when it is no identifier, True (Renamed) otherwise
RenameResult(comps, new) ==
    IF new \in Keys(comps) THEN "-1"
    ELSE IF new \notin Identifiers THEN "-2"
    ELSE "True"

\* C7: rename_component returns Conflict, InvalidName or Renamed as the new name
\* decides, and changes neither mapping when it returns Conflict or InvalidName.
C7_RenameOutcomes ==
    [][\A old \in OldNames, new \in NewNames :
          RenameComponent(old, new)
              => /\ ret' = RenameResult(components, new)
                 /\ ret' \in {"-1", "-2"} => UNCHANGED <<components, connectors>>]_vars

\* the component mapping with the key old replaced by new, in place
Renamed(comps, old, new) ==
    [i \in 1..Len(comps) |->
        IF comps[i].name = old THEN [comps[i] EXCEPT !.name = new] ELSE comps[i]]

\* the connector mapping with every parent_name old replaced by new
Reparented(conns, old, new) ==
    [c \in DOMAIN conns |->
        IF conns[c].parent_name = old THEN [conns[c] EXCEPT !.parent_name = new]
        ELSE conns[c]]

\* C8: when rename_component reports Renamed, new is a key and old is none, every
\* connector of parent old has parent new, and nothing else has changed.
C8_RenamedCarriesOver ==
    [][\A old \in OldNames, new \in NewNames :
          (RenameComponent(old, new) /\ ret' = "True")
              => /\ new \in Keys(components')
                 /\ old \notin Keys(components')
                 /\ components' = Renamed(components, old, new)
                 /\ connectors' = Reparented(connectors, old, new)]_vars

\* C9: a poll of the observer never finds a component still present while one of
\* its connectors has been removed by a delete_component in progress.
C9_NoPartialStateObserved == seen # "partial"

\* the changes of status C10 allows
StatusSteps ==
    { <<"unbuilt", "building">>, <<"good", "building">>, <<"failed", "building">>,
      <<"building", "good">>, <<"building", "failed">> }

\* the status of the component of that name
StatusOf(comps, name) == Get(comps, name).status

\* C10: a status changes only along Unbuilt/Good/Failed -> Building -> Good/Failed;
\* a pass of make_all_components leaves every component good or failed; and no
\* step outside a component's make() changes a status.
C10_StatusMachine ==
    [][/\ \A name \in Keys(components) \cap Keys(components') :
              \/ StatusOf(components', name) = StatusOf(components, name)
              \/ /\ <<StatusOf(components, name), StatusOf(components', name)>>
                        \in StatusSteps
                 /\ pc \in {"making", "in_make"}
       /\ (pc \in {"making", "in_make"} /\ pc' = "idle")
              => \A i \in 1..Len(components') :
                     components'[i].status \in {"good", "failed"}]_vars

(* --------------------------- the table model -------------------------- *)

\* most rows the table is let to show
MaxRows == 3

\* the names the components of the table are constructed with
RowNames == CompNames \cup {"c"}

\* the columns of the table: name, class, module, build status
Columns == 0..3

\* the QModelIndex values the view asks with: the cells of the table and of one
\* row past it, and the invalid index
Indexes ==
    {[valid |-> TRUE, row |-> r, column |-> c] : r \in 0..MaxRows, c \in Columns}
        \cup {[valid |-> FALSE, row |-> -1, column |-> -1]}

\* the sets of components whose make() fails while the table is shown
RowFailSets == {{}, {"b"}}

\* list(components.keys())
KeyList(comps) == [i \in 1..Len(comps) |-> comps[i].name]

\* obj.__class__.__name__
class_name(obj) == IF obj.name = "a" THEN "TransmonPocket" ELSE "QComponent"

\* obj.__class__.__module__
module_name(obj) ==
    IF obj.name = "a" THEN "qiskit_metal.components.qubits.transmon_pocket"
                      ELSE "qiskit_metal.components.base.qcomponent"

\* ComponentsTableModel.rowCount; design is FALSE when gui.design is None
rowCount(design, comps) == IF design THEN Len(comps) ELSE 0

\* ComponentsTableModel.data reading the key list at index.row() - 1, where
\* Python takes -1 for the last entry
data_row_before(design, comps, valid, row, column) ==
    IF ~valid \/ ~design THEN "None"
    ELSE IF row > Len(comps) \/ Len(comps) = 0 THEN "IndexError"
    ELSE LET component_name == KeyList(comps)[IF row = 0 THEN Len(comps) ELSE row]
         IN  IF column = 0 THEN component_name
             ELSE IF column = 1 THEN class_name(Get(comps, component_name))
             ELSE IF column = 2 THEN module_name(Get(comps, component_name))
             ELSE IF column = 3 THEN Get(comps, component_name).status
             ELSE "None"

\* ComponentsTableModel.data for the display role; valid is index.isValid(),
\* row and column are index.row() and index.column()
data(design, comps, valid, row, column) ==
    IF ~valid \/ ~design THEN "None"
    ELSE IF row + 1 > Len(comps) THEN "IndexError"
    ELSE LET component_name == KeyList(comps)[row + 1]
         IN  IF column = 0 THEN component_name
             ELSE IF column = 1 THEN class_name(Get(comps, component_name))
             ELSE IF column = 2 THEN module_name(Get(comps, component_name))
             ELSE IF column = 3 THEN Get(comps, component_name).status
             ELSE "None"

\* refresh_auto without its assignment self._row_count = new_count
refresh_auto_count_not_stored(design, comps, cached) ==
    LET new_count == rowCount(design, comps)
    IN  IF cached # new_count
        THEN [row_count |-> cached, emitted |-> TRUE]
        ELSE [row_count |-> cached, emitted |-> FALSE]

\* ComponentsTableModel.refresh_auto: the cached row count it leaves, and
\* whether it emitted modelReset
refresh_auto(design, comps, cached) ==
    LET new_count == rowCount(design, comps)
    IN  IF cached # new_count
        THEN [row_count |-> new_count, emitted |-> TRUE]
        ELSE [row_count |-> cached, emitted |-> FALSE]

\* a component is constructed with the design shown in the table
ConstructComponent(name) ==
    /\ Idle
    /\ name \notin Keys(components)
    /\ Len(components) < MaxRows
    /\ components' = Append(components, NewComponent(name))
    /\ ret' = "None"
    /\ last' = Call("construct_component", FALSE)
    /\ UNCHANGED <<connectors, variables>>

\* the timer fires: refresh_auto
RefreshAuto ==
    /\ pc = "idle"
    /\ LET out == refresh_auto(TRUE, components, row_count)
       IN  /\ row_count' = out.row_count
           /\ emitted' = out.emitted
    /\ polled' = KeyList(components)
    /\ ret' = "None"
    /\ last' = Call("refresh_auto", KeyList(components) # polled)
    /\ UNCHANGED <<components, connectors, variables, position, seen, input>>

\* the view asks for the text of a cell
Data(index) ==
    /\ pc = "idle"
    /\ ret' = data(TRUE, components, index.valid, index.row, index.column)
    /\ last' = Call("data", index.valid /\ index.row < Len(components))
    /\ UNCHANGED <<components, connectors, variables, position, seen, table, input>>

TableNext ==
    \/ \E name \in RowNames : ConstructComponent(name)
    \/ \E name \in RowNames, force \in BOOLEAN : DeleteComponent(name, force)
    \/ DeleteAllComponents
    \/ \E fails \in RowFailSets : MakeAllComponents(fails)
    \/ RefreshAuto
    \/ \E index \in Indexes : Data(index)

TableSpec == Init /\ [][TableNext]_vars

(* ------------------------------- C11 ---------------------------------- *)

\* the place of a key in the component mapping
Place(comps, name) == CHOOSE i \in 1..Len(comps) : comps[i].name = name

\* no two entries of the mapping have the same name
DistinctNames(comps) ==
    \A i, j \in 1..Len(comps) : comps[i].name = comps[j].name => i = j

\* C11: the names of the component mapping are pairwise distinct, and its
\* iteration order is the insertion order of the components that survive: a
\* step never swaps two components that stay, a component that enters comes
\* after all that were there (A then B on an empty registry is exactly
\* [A, B]), and a deletion leaves the remaining ones in their order.
C11_InsertionOrder ==
    [][/\ DistinctNames(components) /\ DistinctNames(components')
       /\ \A i, j \in 1..Len(components') :
             LET n == components'[i].name
                 m == components'[j].name
             IN  /\ (i < j /\ n \in Keys(components) /\ m \in Keys(components))
                        => Place(components, n) < Place(components, m)
                 /\ (n \in Keys(components) /\ m \notin Keys(components)) => i < j
       /\ \A name \in RowNames :
             (last'.op = "construct_component" /\ ConstructComponent(name))
                 => KeyList(components') = Append(KeyList(components), name)
       /\ \A name \in RowNames, force \in BOOLEAN :
             (last'.op = "delete_component" /\ ret' = "True"
                  /\ DeleteComponent(name, force))
                 => KeyList(components')
                        = SelectSeq(KeyList(components), LAMBDA k : k # name)]_vars

\* one of three components was deleted: the two that stay keep their order,
\* the later-named one first as it was inserted first
C11_Witness ==
    /\ last = Call("delete_component", TRUE)
    /\ ret = "True"
    /\ KeyList(components) = <<"c", "a">>

(* ------------------- connectors over a grid of points ----------------- *)

\* the largest coordinate of the grid the end points are drawn from
MaxCoord == 2

GridPoints == {<<x, y>> : x, y \in 0..MaxCoord}

\* the point lists add_connector is called with: two points of the grid on one
\* horizontal or vertical line (the same point twice among them), and lists of
\* no, one and three points
PointLists ==
    {pq \in GridPoints \X GridPoints : pq[1][1] = pq[2][1] \/ pq[1][2] = pq[2][2]}
        \cup { << >>, << <<0, 0>> >>, << <<0, 0>>, <<1, 0>>, <<2, 0>> >> }

\* the chips connectors are put on
Chips == {"main", "Q1_chip"}

\* the parents the connector over the grid is given: None, and a string
GridParents == {parent \in ParentArgs : parent.kind # "component"}

\* the calls of add_connector over the grid
GridCalls == [points : PointLists, flip : BOOLEAN, chip : Chips, parent : GridParents]

\* the name the connector over the grid is added under
GridConnName == "c1"

\* a fresh design, and a call of add_connector about to be made on it
GeomInit == Constructed /\ input \in GridCalls

\* the call is made
AddGridConnector == AddConnector(GridConnName, input, input.parent)

GeomNext ==
    \/ AddGridConnector
    \/ DeleteAllConnectors

GeomSpec == GeomInit /\ [][GeomNext]_vars

(* ------------------------------- C12 ---------------------------------- *)

\* C12: add_connector (through make_connector) answers InvalidGeometry when
\* points has not exactly two entries and DegenerateConnector when the two
\* points are equal, and in both cases inserts nothing into the connectors.
C12_ConnectorErrors ==
    [][AddGridConnector
          => /\ Len(input.points) # 2
                    => (ret' = "InvalidGeometry" /\ connectors' = connectors)
             /\ (Len(input.points) = 2 /\ input.points[1] = input.points[2])
                    => (ret' = "DegenerateConnector" /\ connectors' = connectors)]_vars

(* ------------------------------- C13 ---------------------------------- *)

\* the parent_name add_connector stores for a parent argument
ParentName(parent) ==
    IF parent.kind = "component" THEN parent.name
    ELSE IF parent.kind = "None" THEN "none"
    ELSE parent.name

\* C13: for two different grid points p0, p1 on one horizontal or vertical
\* line the stored connector has width |p1 - p0|, tangent the unit step from
\* p0 toward p1, middle (p0 + p1)/2, the chip and the parent name it was given
\* (chip "main" when left out); flip = TRUE gives the exact negation of the
\* normal flip = FALSE gives, with every other field the same; [[0,0],[2,0]]
\* gives width 2, tangent [1,0], middle [1,0].
C13_ConnectorGeometry ==
    [][(/\ AddGridConnector
        /\ Len(input.points) = 2
        /\ input.points[1] # input.points[2])
          => LET c == connectors'[GridConnName]
                 p0 == input.points[1]
                 p1 == input.points[2]
                 dx == p1[1] - p0[1]
                 dy == p1[2] - p0[2]
                 flipped == make_connector(input.points, ParentName(input.parent),
                                           ~input.flip, input.chip).value
                 plain == make_connector(input.points, ParentName(input.parent),
                                         KeywordDefaults.flip,
                                         KeywordDefaults.chip).value
             IN  /\ ret' = "None"
                 /\ ~c.nan
                 /\ c.points = input.points
                 /\ c.width >= 0 /\ c.width * c.width = dx * dx + dy * dy
                 /\ c.tangent[1] * c.width = dx /\ c.tangent[2] * c.width = dy
                 /\ \A k \in 1..2 : 2 * c.middle[k][1] = (p0[k] + p1[k]) * c.middle[k][2]
                 /\ c.chip = input.chip
                 /\ plain.chip = "main"
                 /\ c.parent_name = ParentName(input.parent)
                 /\ c.normal # <<0, 0>>
                 /\ flipped.normal = <<-c.normal[1], -c.normal[2]>>
                 /\ [flipped EXCEPT !.normal = c.normal] = c
                 /\ input.points = << <<0, 0>>, <<2, 0>> >>
                        => /\ c.width = 2
                           /\ c.tangent = <<1, 0>>
                           /\ c.middle = << <<1, 1>>, <<0, 1>> >>]_vars

\* the connector from [0,0] to [2,0] was added with flip = TRUE: its normal is
\* the negation of the [0,1] that flip = FALSE gives
C13_Witness ==
    /\ last = Call("add_connector", FALSE)
    /\ ret = "None"
    /\ input.flip
    /\ GridConnName \in DOMAIN connectors
    /\ connectors[GridConnName].points = << <<0, 0>>, <<2, 0>> >>
    /\ connectors[GridConnName].width = 2
    /\ connectors[GridConnName].normal = <<0, -1>>

(* ------------------------------- C14 ---------------------------------- *)

\* C14: rowCount() is the current number of components (0 with no design);
\* for each row r below it, column 0 of the table is the r-th name of the
\* mapping in insertion order and columns 1 to 3 are the class name, the module
\* name and the status of that same component; the names and classes of the
\* rows stay as they are while the keys of the mapping stay as they are.
C14_TableShowsRegistry ==
    [][/\ rowCount(TRUE, components') = Len(components')
       /\ rowCount(FALSE, components') = 0
       /\ \A index \in Indexes :
             (/\ last'.op = "data"
              /\ index.valid
              /\ index.row < rowCount(TRUE, components)
              /\ Data(index))
                 => LET obj == components[index.row + 1]
                    IN  /\ index.column = 0 => ret' = obj.name
                        /\ index.column = 1 => ret' = class_name(obj)
                        /\ index.column = 2 => ret' = module_name(obj)
                        /\ index.column = 3 => ret' = obj.status
       /\ KeyList(components') = KeyList(components)
             => \A r \in 0..(Len(components) - 1), column \in 0..2 :
                   data(TRUE, components', TRUE, r, column)
                       = data(TRUE, components, TRUE, r, column)]_vars

\* the view read the status of component b, which failed to build and stands
\* in the second row behind c
C14_Witness ==
    /\ last = Call("data", TRUE)
    /\ ret = "failed"
    /\ KeyList(components) = <<"c", "b">>
    /\ components[2].status = "failed"

(* ------------------------------ parsing ------------------------------- *)

\* the keys of the option mappings handed to parse_params
ParamKeys == {"w", "h"}

\* the option mappings handed to parse_params
ParamDicts == [ParamKeys -> {"x", "3", "2*"}]

\* the selectors handed to parse_params, as the sets of names they list
ParamNames == SUBSET ParamKeys

\* the entries the user sets in design.variables
VariableSettings == {<<"x", "3">>, <<"x", "2*">>, <<"y", "x">>}

\* toolbox_metal.parsing.parse_params: parse_value on the entries the selector
\* names, the other entries as they are; a malformed named entry raises
parse_params(params, param_names, variable_dict) ==
    LET value == [k \in DOMAIN params |->
                     IF k \in param_names THEN parse_value(params[k], variable_dict)
                                          ELSE params[k]]
    IN  [raised |-> \E k \in DOMAIN params : k \in param_names /\ value[k] = "ParseError",
         value |-> value]

\* DesignBase.parse_params handing every key of params to the parser as named
DesignBase_parse_params_all(variable_dict, params, param_names) ==
    [variables |-> variable_dict,
     out |-> parse_params(params, DOMAIN params, variable_dict)]

\* DesignBase.parse_params: the variable table it leaves and what the parser
\* returned or raised
DesignBase_parse_params(variable_dict, params, param_names) ==
    [variables |-> variable_dict,
     out |-> parse_params(params, param_names, variable_dict)]

\* the user sets a design variable: design.variables[name] = value
SetVariable(name, value) ==
    /\ Idle
    /\ variables' = [k \in DOMAIN variables \cup {name} |->
                        IF k = name THEN value ELSE variables[k]]
    /\ ret' = "None"
    /\ last' = Call("set_variable", FALSE)
    /\ UNCHANGED <<components, connectors>>

\* DesignBase.parse_params
ParseParams(params, param_names) ==
    /\ Idle
    /\ LET res == DesignBase_parse_params(variables, params, param_names)
       IN  /\ variables' = res.variables
           /\ ret' = IF res.out.raised THEN "ParseError" ELSE "Dict"
    /\ last' = Call("parse_params",
                    \E k \in DOMAIN params :
                       k \notin param_names /\ params[k] \in DOMAIN variables)
    /\ UNCHANGED <<components, connectors>>

ParseNext ==
    \/ \E name \in CompNames : AddComponent(name)
    \/ \E name \in ConnNames, args \in ConnectorArgs, parent \in ParentArgs :
          AddConnector(name, args, parent)
    \/ \E setting \in VariableSettings : SetVariable(setting[1], setting[2])
    \/ \E value \in ParseArgs \cup {"y"} : ParseValue(value)
    \/ \E params \in ParamDicts, param_names \in ParamNames :
          ParseParams(params, param_names)

ParseSpec == Init /\ [][ParseNext]_vars

(* ------------------------------- C15 ---------------------------------- *)

\* C15: parse_value and parse_params only read the registry: after either,
\* value or ParseError, the variables, components and connectors are as they
\* were; parse_params returns the entries its selector does not name unchanged.
C15_ParsingOnlyReads ==
    [][/\ \A value \in ParseArgs \cup {"y"} :
             (last'.op = "parse_value" /\ ParseValue(value))
                 => UNCHANGED <<variables, components, connectors>>
       /\ \A params \in ParamDicts, param_names \in ParamNames :
             (last'.op = "parse_params" /\ ParseParams(params, param_names))
                 => /\ UNCHANGED <<variables, components, connectors>>
                    /\ LET out == DesignBase_parse_params(variables, params,
                                                          param_names).out
                       IN  /\ (ret' = "ParseError") = out.raised
                           /\ ~out.raised
                                  => /\ DOMAIN out.value = DOMAIN params
                                     /\ \A k \in DOMAIN params :
                                           k \notin param_names
                                               => out.value[k] = params[k]]_vars

\* parse_params returned a mapping for params with an entry it was not to
\* parse that names a design variable, on a registry holding a component and a
\* connector
C15_Witness ==
    /\ last = Call("parse_params", TRUE)
    /\ ret = "Dict"
    /\ components # EmptyDict
    /\ connectors # EmptyDict
    /\ "y" \in DOMAIN variables

(* ------------------------------- C16 ---------------------------------- *)

\* C16: add_connector with a name that is no key yet and two points inserts
\* exactly one entry, under that name, and changes nothing else; the stored
\* parent_name is the component's name for a component, "none" for None, and
\* the string itself for a string.
C16_AddConnectorInsertsOne ==
    [][\A name \in ConnNames, args \in ConnectorArgs, parent \in ParentArgs :
          (/\ name \notin DOMAIN connectors
           /\ Len(args.points) = 2
           /\ last'.op = "add_connector"
           /\ AddConnector(name, args, parent))
              => /\ ret' = "None"
                 /\ DOMAIN connectors' = DOMAIN connectors \cup {name}
                 /\ \A c \in DOMAIN connectors : connectors'[c] = connectors[c]
                 /\ UNCHANGED <<components, variables>>
                 /\ connectors'[name].points = args.points
                 /\ parent.kind = "component" => connectors'[name].parent_name = parent.name
                 /\ parent.kind = "None" => connectors'[name].parent_name = "none"
                 /\ parent.kind = "str" => connectors'[name].parent_name = parent.name]_vars

\* a second connector was added next to one that names a component as its
\* parent: the new one has parent "none"
C16_Witness ==
    /\ last = Call("add_connector", FALSE)
    /\ ret = "None"
    /\ DOMAIN connectors = {"c1", "c2"}
    /\ \E c, d \in DOMAIN connectors :
          /\ connectors[c].parent_name = "none"
          /\ connectors[d].parent_name = "a"
    /\ components # EmptyDict

(* ------------------------------- C17 ---------------------------------- *)

\* the interpreter runs a call of make_all_components on: the loop takes its
\* next turn, a make() that was entered returns or raises, and the loop ends
MakeFairness ==
    /\ WF_vars(EnterMake)
    /\ WF_vars(\E fails \in BOOLEAN : LeaveMake(fails))
    /\ WF_vars(EndMakeAll)

FairConcSpec == ConcSpec /\ MakeFairness

\* C17: a call of make_all_components ends, and by then make() has been
\* entered exactly once on each component of the mapping, in insertion order:
\* the loop enters make() on the entry it stands at, moves one entry on after
\* each, and stands at or past the last entry when the call ends.
C17_MakeAllVisitsEachOnce ==
    /\ [][/\ (pc = "making" /\ pc' = "in_make")
                 => (idx' = idx /\ components'[idx].status = "building")
          /\ (pc = "in_make" /\ pc' = "making") => idx' = idx + 1
          /\ (pc \in {"making", "in_make"} /\ pc' = "idle")
                 => idx >= Len(components)]_vars
    /\ (pc = "making") ~> (pc = "idle")

(* ------------------------------- C18 ---------------------------------- *)

\* C18: a delete_component that fails part-way, on a name of connector_names
\* that is no key of the connectors, leaves the registry exactly as it was:
\* delete_component either removes the component together with all of its
\* connectors or changes nothing.
C18_DeleteAllOrNothing ==
    [][\A name \in CompNames, force \in BOOLEAN :
          (/\ last'.op = "delete_component"
           /\ name \in Keys(components)
           /\ DeleteComponent(name, force))
              => \/ UNCHANGED <<components, connectors, variables>>
                 \/ /\ ret' = "True"
                    /\ name \notin Keys(components')
                    /\ \A c \in Get(components, name).connector_names :
                          c \notin DOMAIN connectors']_vars

(* ------------------------------- C19 ---------------------------------- *)

\* C19: every connector's parent_name is "none" or the name of a component
\* that is in the component mapping.
C19_ParentsExist ==
    \A c \in DOMAIN connectors :
       connectors[c].parent_name \in Keys(components) \cup {"none"}

(* ------------------------------- C20 ---------------------------------- *)

\* C20 as claimed: a poll emits modelReset exactly when the number of
\* components differs from the cached row count and leaves the cached count
\* equal to that number, and every poll that finds the keys of the mapping
\* changed since the poll before emits modelReset.
C20_EveryChangeResets ==
    [][(last'.op = "refresh_auto" /\ RefreshAuto)
          => /\ emitted' = (row_count # Len(components))
             /\ row_count' = Len(components)
             /\ KeyList(components) # polled => emitted']_vars

\* C20 amended: a poll emits modelReset exactly when the number of components
\* differs from the cached row count and leaves the cached count equal to that
\* number; a poll that finds the keys of the mapping changed since the poll
\* before emits modelReset when their number has changed too.
C20_CountChangeResets ==
    [][(last'.op = "refresh_auto" /\ RefreshAuto)
          => /\ emitted' = (row_count # Len(components))
             /\ row_count' = Len(components)
             /\ (KeyList(components) # polled /\ Len(components) # Len(polled))
                    => emitted']_vars

\* a poll found three components where the poll before had found other keys,
\* and emitted modelReset
C20_Witness ==
    /\ last = Call("refresh_auto", TRUE)
    /\ emitted
    /\ row_count = 3
    /\ Len(components) = 3

(* ------------------------------- C21 ---------------------------------- *)

\* C21: delete_all_connectors empties the connector mapping and leaves the
\* component mapping (names, order, statuses) and the variable mapping as they
\* were; of the two, it is delete_all_components that removes the components.
C21_DeleteAllConnectorsFrame ==
    [][/\ (last'.op = "delete_all_connectors" /\ DeleteAllConnectors)
              => /\ connectors' = EmptyDict
                 /\ ret' = "connectors"
                 /\ KeyList(components') = KeyList(components)
                 /\ \A i \in 1..Len(components) :
                       components'[i].status = components[i].status
                 /\ UNCHANGED <<components, variables>>
       /\ (last'.op = "delete_all_components" /\ DeleteAllComponents)
              => components' = EmptyDict]_vars

\* delete_all_connectors ran on a design of two built components, one of
\* which had added a connector: both are still there, in order, as built
C21_Witness ==
    /\ last = Call("delete_all_connectors", FALSE)
    /\ ret = "connectors"
    /\ connectors = EmptyDict
    /\ KeyList(components) = <<"b", "a">>
    /\ components[1].status = "failed"
    /\ components[2].status = "good"
    /\ \E i \in 1..Len(components) : components[i].connector_names # {}

====
